---- MODULE Spec2Model ----
(***************************************************************************)
(* Padlock Cloud: the authentication-token state machine, the request      *)
(* pipeline, the e-mail rate limiter and the shutdown sequence of          *)
(* padlockcloud.Server.                                                    *)
(***************************************************************************)
EXTENDS Integers, Sequences, FiniteSets, TLC

\* ------------------------------------------------------------------ bounds
\* The clock runs from 0 to MaxTime.
MaxTime == 1

Emails == {"a@x", "b@x"}
Workers == {"w1", "w2"}
\* Token identifiers are random and never repeat: the n-th one issued is n.
TokenIds == {1, 2}

\* A token is expired when more than ExpiryWindow has passed since its last use.
ExpiryWindow == 0

VARIABLES
    accounts,      \* storage, namespace of Account: email -> [exists, tokens]
    authRequests,  \* storage, namespace of AuthRequest: set of [ref, email, id]
    nextId,        \* the next token identifier to be generated
    now,           \* the clock
    worker,        \* per request worker: its handler's position and locals
    last,          \* history: what the step just taken returned, if it returned
    serial,        \* history: per token, what the completed operations made of it
    staleWrite,    \* history: the emails whose Account a stale copy has overwritten
    \* the request pipeline
    req,           \* the request being served: its endpoint and what its layers find
    chain,         \* the handler WrapEndpoint built for the endpoint, outermost first
    pos,           \* the layer of chain that runs next, 0 when no request is served
    visited,       \* history: the layers that have run for this request, in order
    failedAt,      \* history: the layer that returned the error, "" if none did
    response,      \* the error kind written as the response, "ok" if none
    \* the e-mail rate limiter
    window,        \* the current one-minute bucket
    ipCount,       \* units consumed of the per-IP quota in the current bucket
    emailCount,    \* units consumed of the per-email quota in the current bucket
    mutex,         \* the caller inside the limiter, "" if none
    caller,        \* per caller of RateLimit: [pc, ip, email, bucket, limited]
    allowed,       \* history: per (ip, email), the actions allowed in the current bucket
    \* start and shutdown
    srv,           \* where Server.Start is
    accepting,     \* the listener accepts connections
    handler,       \* per connection: "idle", or its request handler's position
    graceExpired,  \* the grace period ran out with handlers still running
    storage,       \* "unopened", "open" or "closed"
    cleaner,       \* the AuthRequest cleaner: "absent", "idle", "sweeping", "stopped"
    todo,          \* the keys the sweep in flight has still to visit
    entity,        \* per AuthRequest key: day of creation, Absent or Deleted
    day,           \* the clock of the cleaner, in days
    stopReturned,  \* history: StorageCleaner.Stop has returned
    lateDelete,    \* history: a sweep deleted an entity after Stop returned
    closedAccess,  \* history: who accessed the storage after Close: a set of names
    \* error translation
    failure,       \* the error an inner layer returned, and its request
    written,       \* the response HandleError wrote, NoResponse if none
    \* the client's API version
    request,       \* the request whose version is asked for: [accept, form, query]
    clientVersion, \* what versionFromRequest returned, NoVersion before the call
    \* the deprecated-version email
    dep,           \* per request: where SendDeprecatedVersionEmail is, its locals
    mail,          \* per request, its sending goroutine: none, pending, sent, failed
    logged,        \* history: the requests whose failure to send was logged
    \* configuration and Server.Init
    expiry,        \* the deployment's expiry window of an active token
    config,        \* what Server.Init finds: secret, templates, the calls that fail
    booted         \* where Server.Init is, the fields it has set, what it returned

lifecycleVars == <<accounts, authRequests, nextId, now, worker, last, serial,
                   staleWrite>>

pipelineVars == <<req, chain, pos, visited, failedAt, response>>

limiterVars == <<window, ipCount, emailCount, mutex, caller, allowed>>

shutdownVars == <<srv, accepting, handler, graceExpired, storage, cleaner, todo,
                  entity, day, stopReturned, lateDelete, closedAccess>>

errorVars == <<failure, written>>

versionVars == <<request, clientVersion>>

deprecatedVars == <<dep, mail, logged>>

configVars == <<expiry>>

initVars == <<config, booted>>

vars == <<lifecycleVars, pipelineVars, limiterVars, shutdownVars, errorVars, versionVars, deprecatedVars, configVars, initVars>>

notLifecycle == <<pipelineVars, limiterVars, shutdownVars, errorVars, versionVars, deprecatedVars, configVars, initVars>>

notPipeline == <<lifecycleVars, limiterVars, shutdownVars, errorVars, versionVars, deprecatedVars, configVars, initVars>>

notLimiter == <<lifecycleVars, pipelineVars, shutdownVars, errorVars, versionVars, deprecatedVars, configVars, initVars>>

notShutdown == <<lifecycleVars, pipelineVars, limiterVars, errorVars, versionVars, deprecatedVars, configVars, initVars>>

notErrors == <<lifecycleVars, pipelineVars, limiterVars, shutdownVars, versionVars, deprecatedVars, configVars, initVars>>

notVersion == <<lifecycleVars, pipelineVars, limiterVars, shutdownVars, errorVars, deprecatedVars, configVars, initVars>>

notDeprecated == <<lifecycleVars, pipelineVars, limiterVars, shutdownVars, errorVars,
                   versionVars, configVars, initVars>>

notDeprecatedNorLimiter == <<lifecycleVars, pipelineVars, shutdownVars, errorVars,
                             versionVars, configVars, initVars>>

notConfig == <<lifecycleVars, pipelineVars, limiterVars, shutdownVars, errorVars, versionVars, deprecatedVars, initVars>>

notInit == <<lifecycleVars, pipelineVars, limiterVars, shutdownVars, errorVars, versionVars, deprecatedVars, configVars>>

\* ------------------------------------------------------- Account / AuthToken
NoAccount == [exists |-> FALSE, tokens |-> <<>>]

NewAccount == [exists |-> TRUE, tokens |-> <<>>]

NoToken == [id |-> 0, lastUsed |-> 0]

\* Index of the first token of the collection with this identifier, 0 if none.
RECURSIVE FindFrom(_, _, _)
FindFrom(tokens, id, i) ==
    IF i > Len(tokens) THEN 0
    ELSE IF tokens[i].id = id THEN i
    ELSE FindFrom(tokens, id, i + 1)

findAuthToken(acc, id) == FindFrom(acc.tokens, id, 1)

\* AuthToken.Validate: the presented token is found in the account.
Validate(acc, id) == findAuthToken(acc, id) # 0

\* The fully populated token Validate copies from the account.
Populated(acc, id) ==
    IF Validate(acc, id) THEN acc.tokens[findAuthToken(acc, id)]
    ELSE [id |-> id, lastUsed |-> 0]

\* AuthToken.Expired
Expired(tok) == now - tok.lastUsed > expiry

\* Account.UpdateAuthToken: replaces the token with the same identifier.
UpdateAuthToken(acc, tok) ==
    LET i == findAuthToken(acc, tok.id)
    IN  IF i = 0 THEN acc ELSE [acc EXCEPT !.tokens[i] = tok]

\* Account.AddAuthToken: appends, or replaces the token with the same identifier.
AddAuthToken(acc, tok) ==
    IF Validate(acc, tok.id) THEN UpdateAuthToken(acc, tok)
    ELSE [acc EXCEPT !.tokens = Append(@, tok)]

\* Account.RemoveAuthToken
RemoveAuthToken(acc, id) ==
    LET Keep(t) == t.id # id
    IN  [acc EXCEPT !.tokens = SelectSeq(@, Keep)]

TokenIdsOf(acc) == {acc.tokens[i].id : i \in 1..Len(acc.tokens)}

\* ------------------------------------------------------------------ Storage
\* Storage.Get of an Account: ErrNotFound when there is none.
StorageGet(email) ==
    IF accounts[email].exists
    THEN [err |-> "", acc |-> accounts[email]]
    ELSE [err |-> "ErrNotFound", acc |-> NoAccount]

\* ------------------------------------------------------------- error kinds
\* ErrorResponse.Status
Status(kind) ==
    CASE kind = "InvalidAuthToken" -> 401
      [] kind = "ExpiredAuthToken" -> 401
      [] kind = "InvalidCsrfToken" -> 403
      [] kind = "UnsupportedApiVersion" -> 400
      [] kind = "MethodNotAllowed" -> 405
      [] kind = "NotFound" -> 404
      [] kind = "" -> 200
      [] OTHER -> 500

\* ------------------------------------------------------ Server.Authenticate
\* The mutants of AuthenticateLoad.
AuthenticateLoadLeaksNotFound(malformed, email, id) ==
    IF malformed THEN [err |-> "InvalidAuthToken", acc |-> NoAccount]
    ELSE LET got == StorageGet(email)
             tok == Populated(got.acc, id)
         IN  IF got.err # "" THEN [err |-> "NotFound", acc |-> NoAccount]
             ELSE IF ~Validate(got.acc, id)
             THEN [err |-> "InvalidAuthToken", acc |-> NoAccount]
             ELSE IF Expired(tok)
             THEN [err |-> "ExpiredAuthToken", acc |-> NoAccount]
             ELSE [err |-> "",
                   acc |-> UpdateAuthToken(got.acc, [tok EXCEPT !.lastUsed = now])]

AuthenticateLoadNoExpiry(malformed, email, id) ==
    IF malformed THEN [err |-> "InvalidAuthToken", acc |-> NoAccount]
    ELSE LET got == StorageGet(email)
             tok == Populated(got.acc, id)
         IN  IF got.err # ""
             THEN [err |-> IF got.err = "ErrNotFound" THEN "InvalidAuthToken"
                           ELSE got.err,
                   acc |-> NoAccount]
             ELSE IF ~Validate(got.acc, id)
             THEN [err |-> "InvalidAuthToken", acc |-> NoAccount]
             ELSE [err |-> "",
                   acc |-> UpdateAuthToken(got.acc, [tok EXCEPT !.lastUsed = now])]

AuthenticateLoadNoValidate(malformed, email, id) ==
    IF malformed THEN [err |-> "InvalidAuthToken", acc |-> NoAccount]
    ELSE LET got == StorageGet(email)
             tok == Populated(got.acc, id)
         IN  IF got.err # ""
             THEN [err |-> IF got.err = "ErrNotFound" THEN "InvalidAuthToken"
                           ELSE got.err,
                   acc |-> NoAccount]
             ELSE IF Expired([tok EXCEPT !.lastUsed = now])
             THEN [err |-> "ExpiredAuthToken", acc |-> NoAccount]
             ELSE [err |-> "",
                   acc |-> UpdateAuthToken(got.acc, [tok EXCEPT !.lastUsed = now])]

AuthenticateLoadDropsOthers(malformed, email, id) ==
    IF malformed THEN [err |-> "InvalidAuthToken", acc |-> NoAccount]
    ELSE LET got == StorageGet(email)
             tok == Populated(got.acc, id)
         IN  IF got.err # ""
             THEN [err |-> IF got.err = "ErrNotFound" THEN "InvalidAuthToken"
                           ELSE got.err,
                   acc |-> NoAccount]
             ELSE IF ~Validate(got.acc, id)
             THEN [err |-> "InvalidAuthToken", acc |-> NoAccount]
             ELSE IF Expired(tok)
             THEN [err |-> "ExpiredAuthToken", acc |-> NoAccount]
             ELSE [err |-> "",
                   acc |-> [got.acc EXCEPT
                               !.tokens = <<[tok EXCEPT !.lastUsed = now]>>]]

AuthenticateLoadTouchesAll(malformed, email, id) ==
    IF malformed THEN [err |-> "InvalidAuthToken", acc |-> NoAccount]
    ELSE LET got == StorageGet(email)
             tok == Populated(got.acc, id)
         IN  IF got.err # ""
             THEN [err |-> IF got.err = "ErrNotFound" THEN "InvalidAuthToken"
                           ELSE got.err,
                   acc |-> NoAccount]
             ELSE IF ~Validate(got.acc, id)
             THEN [err |-> "InvalidAuthToken", acc |-> NoAccount]
             ELSE IF Expired(tok)
             THEN [err |-> "ExpiredAuthToken", acc |-> NoAccount]
             ELSE [err |-> "",
                   acc |-> [got.acc EXCEPT
                               !.tokens = [i \in DOMAIN got.acc.tokens |->
                                    [got.acc.tokens[i] EXCEPT !.lastUsed = now]]]]

\* Authenticate up to its Storage.Put: the error it returns ("" when it goes on
\* to the Put) and the account it is about to persist.
AuthenticateLoad(malformed, email, id) ==
    IF malformed THEN [err |-> "InvalidAuthToken", acc |-> NoAccount]
    ELSE LET got == StorageGet(email)
             tok == Populated(got.acc, id)
         IN  IF got.err # ""
             THEN [err |-> IF got.err = "ErrNotFound" THEN "InvalidAuthToken"
                           ELSE got.err,
                   acc |-> NoAccount]
             ELSE IF ~Validate(got.acc, id)
             THEN [err |-> "InvalidAuthToken", acc |-> NoAccount]
             ELSE IF Expired(tok)
             THEN [err |-> "ExpiredAuthToken", acc |-> NoAccount]
             ELSE [err |-> "",
                   acc |-> UpdateAuthToken(got.acc, [tok EXCEPT !.lastUsed = now])]

\* ----------------------------------------------------------- request workers
\* What is recorded of an operation: its arguments, what storage held when it
\* started, and what it returned (kind).
NoInfo ==
    [op |-> "", kind |-> "", email |-> "", id |-> 0, malformed |-> FALSE,
     existed |-> FALSE, seen |-> "none", was |-> 0, pend |-> FALSE,
     st |-> "none"]

Idle == [pc |-> "idle", acc |-> NoAccount, stale |-> FALSE, info |-> NoInfo]

Pending(id) == \E r \in authRequests : r.id = id

\* What the stored Account of email holds for this identifier: "none", or the
\* token "expired" or "usable" (stated on the collection as a set).
Seen(email, id) ==
    LET toks == accounts[email].tokens
    IN  IF ~accounts[email].exists \/ ~\E i \in DOMAIN toks : toks[i].id = id
        THEN "none"
        ELSE IF \E i \in DOMAIN toks :
                    toks[i].id = id /\ now - toks[i].lastUsed <= ExpiryWindow
        THEN "usable"
        ELSE "expired"

\* existed, seen, was (the last use of the usable token seen) and pend are
\* recorded of Authenticate alone, st of Authenticate and ActivateToken.
Started(op, malformed, email, id) ==
    [op |-> op, kind |-> "inProgress", email |-> email, id |-> id,
     malformed |-> malformed,
     existed |-> op = "auth" /\ accounts[email].exists,
     seen |-> IF op = "auth" THEN Seen(email, id) ELSE "none",
     was |-> IF op = "auth" /\ Seen(email, id) = "usable"
             THEN Populated(accounts[email], id).lastUsed ELSE 0,
     pend |-> op = "auth" /\ Pending(id),
     st |-> IF op = "revoke" THEN "none" ELSE serial[id].st]

\* Worker v holds a copy of the Account of email, loaded and not yet persisted.
HoldsCopy(v, email) ==
    /\ worker[v].info.email = email
    /\ worker[v].pc \in {"authPut", "actDelete", "actPut", "revPut"}

\* Storage.Put of worker w's copy of the Account: it overwrites what is stored,
\* and the operation returns.
PutAccount(w) ==
    /\ accounts' = [accounts EXCEPT ![worker[w].info.email] = worker[w].acc]
    /\ staleWrite' = IF worker[w].stale
                     THEN staleWrite \cup {worker[w].info.email}
                     ELSE staleWrite
    /\ worker' = [v \in Workers |->
                    IF v = w THEN Idle
                    ELSE IF HoldsCopy(v, worker[w].info.email)
                    THEN [worker[v] EXCEPT !.stale = TRUE]
                    ELSE worker[v]]
    /\ last' = [worker[w].info EXCEPT !.kind = "ok"]

\* Authenticate, from AuthTokenFromRequest to the decision to persist.
AuthenticateGet(w, malformed, email, id) ==
    LET a == AuthenticateLoad(malformed, email, id)
        info == Started("auth", malformed, email, id)
    IN  /\ worker[w].pc = "idle"
        /\ IF a.err = ""
           THEN /\ worker' = [worker EXCEPT ![w] =
                        [pc |-> "authPut", acc |-> a.acc, stale |-> FALSE,
                         info |-> info]]
                /\ last' = NoInfo
           ELSE /\ worker' = worker
                /\ last' = [info EXCEPT !.kind = a.err]
        /\ UNCHANGED <<accounts, authRequests, nextId, now, serial, staleWrite>>
        /\ UNCHANGED notLifecycle

\* Authenticate's Storage.Put and return.
AuthenticatePut(w) ==
    /\ worker[w].pc = "authPut"
    /\ PutAccount(w)
    /\ UNCHANGED <<authRequests, nextId, now, serial>>
    /\ UNCHANGED notLifecycle

\* ------------------------------------------------------------ RequestToken
RequestToken(email) ==
    /\ nextId \in TokenIds
    /\ authRequests' = authRequests \cup
            {[ref |-> nextId, email |-> email, id |-> nextId]}
    /\ nextId' = nextId + 1
    /\ last' = NoInfo
    /\ UNCHANGED <<accounts, now, worker, serial, staleWrite>>
    /\ UNCHANGED notLifecycle

\* ------------------------------------------------------------ ActivateToken
ActivateGetRequest(w, ref) ==
    /\ worker[w].pc = "idle"
    /\ IF \E r \in authRequests : r.ref = ref
       THEN LET r == CHOOSE r \in authRequests : r.ref = ref
            IN  /\ worker' = [worker EXCEPT ![w] =
                        [pc |-> "actGetAccount", acc |-> NoAccount,
                         stale |-> FALSE,
                         info |-> Started("activate", FALSE, r.email, r.id)]]
                /\ last' = NoInfo
       ELSE /\ worker' = worker
            /\ last' = [NoInfo EXCEPT !.op = "activate", !.kind = "NotFound",
                            !.id = ref, !.st = serial[ref].st]
    /\ UNCHANGED <<accounts, authRequests, nextId, now, serial, staleWrite>>
    /\ UNCHANGED notLifecycle

ActivateGetAccount(w) ==
    /\ worker[w].pc = "actGetAccount"
    /\ LET got == StorageGet(worker[w].info.email)
           acc == IF got.err = "" THEN got.acc ELSE NewAccount
       IN  worker' = [worker EXCEPT ![w].pc = "actDelete",
                ![w].acc = AddAuthToken(acc,
                              [id |-> worker[w].info.id, lastUsed |-> now])]
    /\ last' = NoInfo
    /\ UNCHANGED <<accounts, authRequests, nextId, now, serial, staleWrite>>
    /\ UNCHANGED notLifecycle

\* The mutant of ActivateDelete: the AuthRequest is left in storage.
ActivateDeleteKeeps(w) ==
    /\ worker[w].pc = "actDelete"
    /\ worker' = [worker EXCEPT ![w].pc = "actPut"]
    /\ last' = NoInfo
    /\ UNCHANGED <<accounts, authRequests, nextId, now, serial, staleWrite>>
    /\ UNCHANGED notLifecycle

ActivateDelete(w) ==
    /\ worker[w].pc = "actDelete"
    /\ authRequests' = {r \in authRequests : r.ref # worker[w].info.id}
    /\ worker' = [worker EXCEPT ![w].pc = "actPut"]
    /\ last' = NoInfo
    /\ UNCHANGED <<accounts, nextId, now, serial, staleWrite>>
    /\ UNCHANGED notLifecycle

ActivatePut(w) ==
    /\ worker[w].pc = "actPut"
    /\ PutAccount(w)
    /\ serial' = [serial EXCEPT ![worker[w].info.id] =
            [st |-> "active", email |-> worker[w].info.email]]
    /\ UNCHANGED <<authRequests, nextId, now>>
    /\ UNCHANGED notLifecycle

\* -------------------------------------------------------------- RevokeToken
\* Another request holds a copy of the token: in a loaded Account, or as the
\* AuthRequest it is activating.
HeldElsewhere(w, id) ==
    \E v \in Workers \ {w} :
        \/ worker[v].pc \in {"authPut", "revPut", "actDelete", "actPut"}
              /\ id \in TokenIdsOf(worker[v].acc)
        \/ worker[v].pc = "actGetAccount" /\ worker[v].info.id = id

RevokeGet(w, email, id) ==
    /\ worker[w].pc = "idle"
    /\ Validate(accounts[email], id)
    /\ worker' = [worker EXCEPT ![w] =
            [pc |-> "revPut", acc |-> RemoveAuthToken(accounts[email], id),
             stale |-> FALSE, info |-> Started("revoke", FALSE, email, id)]]
    /\ last' = NoInfo
    /\ UNCHANGED <<accounts, authRequests, nextId, now, serial, staleWrite>>
    /\ UNCHANGED notLifecycle

RevokePut(w) ==
    /\ worker[w].pc = "revPut"
    /\ PutAccount(w)
    /\ serial' = [serial EXCEPT ![worker[w].info.id].st =
            IF HeldElsewhere(w, worker[w].info.id) THEN "revoked"
            ELSE "revokedQuiet"]
    /\ UNCHANGED <<authRequests, nextId, now>>
    /\ UNCHANGED notLifecycle

\* ----------------------------------------------------------------- the clock
Tick ==
    /\ now < MaxTime
    /\ now' = now + 1
    /\ last' = NoInfo
    /\ UNCHANGED <<accounts, authRequests, nextId, worker, serial, staleWrite>>
    /\ UNCHANGED notLifecycle

\* ------------------------------------------------------------ specification
InitLifecycle ==
    /\ accounts = [e \in Emails |-> NoAccount]
    /\ authRequests = {}
    /\ nextId = 1
    /\ now = 0
    /\ worker = [w \in Workers |-> Idle]
    /\ last = NoInfo
    /\ serial = [t \in TokenIds |-> [st |-> "none", email |-> ""]]
    /\ staleWrite = {}

Next ==
    \/ \E w \in Workers, e \in Emails, t \in TokenIds :
            AuthenticateGet(w, FALSE, e, t)
    \/ \E w \in Workers : AuthenticateGet(w, TRUE, "a@x", 1)  \* no credentials parse
    \/ \E w \in Workers : AuthenticatePut(w)
    \/ \E e \in Emails : RequestToken(e)
    \/ \E w \in Workers, t \in TokenIds : ActivateGetRequest(w, t)
    \/ \E w \in Workers : ActivateGetAccount(w)
    \/ \E w \in Workers : ActivateDelete(w)
    \/ \E w \in Workers : ActivatePut(w)
    \/ \E w \in Workers, e \in Emails, t \in TokenIds : RevokeGet(w, e, t)
    \/ \E w \in Workers : RevokePut(w)
    \/ Tick

\* ======================================================== request pipeline
ApiVersion == 1

Methods == {"GET", "HEAD", "POST", "PUT", "DELETE"}

\* Server.InitEndpoints: the handlers' methods, the version and the auth type
\* of each endpoint.
Endpoints ==
    [p \in {"/auth/", "/login/", "/activate/", "/store/", "/deletestore/",
            "/dashboard/", "/logout/", "/revoke/", "/static/", "/"} |->
        CASE p = "/auth/" ->
                [methods |-> {"PUT", "POST"}, version |-> ApiVersion, authType |-> ""]
          [] p = "/login/" ->
                [methods |-> {"GET", "POST"}, version |-> 0, authType |-> ""]
          [] p = "/activate/" ->
                [methods |-> {"GET"}, version |-> 0, authType |-> ""]
          [] p = "/store/" ->
                [methods |-> {"GET", "HEAD", "PUT", "DELETE"},
                 version |-> ApiVersion, authType |-> "api"]
          [] p = "/deletestore/" ->
                [methods |-> {"POST"}, version |-> 0, authType |-> "web"]
          [] p = "/dashboard/" ->
                [methods |-> {"GET"}, version |-> 0, authType |-> "web"]
          [] p = "/logout/" ->
                [methods |-> {"GET"}, version |-> 0, authType |-> "web"]
          [] p = "/revoke/" ->
                [methods |-> {"POST"}, version |-> 0, authType |-> "web"]
          [] p = "/static/" ->
                [methods |-> {"GET"}, version |-> 0, authType |-> ""]
          [] OTHER ->
                [methods |-> {"GET", "PUT"}, version |-> 0, authType |-> ""]]

Paths == DOMAIN Endpoints

\* Middleware.Wrap: the layer runs first, then the handler it wraps.
Wrap(layer, h) == <<layer>> \o h

\* The mutant of WrapEndpoint: the method check wrapped before authentication.
WrapEndpointAuthOutside(endpoint) ==
    LET h0 == <<"Endpoint">>
        h1 == IF endpoint.authType # "" THEN Wrap("CSRF", h0) ELSE h0
        h2 == Wrap("CheckEndpointVersion", h1)
        h3 == Wrap("CheckMethod", h2)
        h4 == Wrap("Authenticate", h3)
        h5 == Wrap("HandlePanic", h4)
    IN  Wrap("HandleError", h5)

\* Server.WrapEndpoint: the layers of the endpoint's handler, outermost first.
WrapEndpoint(endpoint) ==
    LET h0 == <<"Endpoint">>
        h1 == IF endpoint.authType # "" THEN Wrap("CSRF", h0) ELSE h0
        h2 == Wrap("CheckEndpointVersion", h1)
        h3 == Wrap("Authenticate", h2)
        h4 == Wrap("CheckMethod", h3)
        h5 == Wrap("HandlePanic", h4)
    IN  Wrap("HandleError", h5)

NoRequest ==
    [path |-> "/", method |-> "GET", authValid |-> FALSE, version |-> 0,
     csrfValid |-> FALSE, outcome |-> "ok"]

PipelineIdle ==
    /\ req = NoRequest
    /\ chain = <<>>
    /\ pos = 0
    /\ visited = <<>>
    /\ failedAt = ""
    /\ response = ""

\* Server.InitHandler: the mux hands the request to the endpoint's wrapped handler.
Arrive(path, method, authValid, version, csrfValid, outcome) ==
    /\ pos = 0
    /\ req' = [path |-> path, method |-> method, authValid |-> authValid,
               version |-> version, csrfValid |-> csrfValid, outcome |-> outcome]
    /\ chain' = WrapEndpoint(Endpoints[path])
    /\ pos' = 1
    /\ visited' = <<>>
    /\ failedAt' = ""
    /\ response' = ""
    /\ UNCHANGED notPipeline

Running(layer) == pos > 0 /\ chain[pos] = layer

\* The layer delegates to the handler it wraps.
Pass(layer) ==
    /\ pos' = pos + 1
    /\ visited' = Append(visited, layer)
    /\ UNCHANGED <<req, chain, failedAt, response>>
    /\ UNCHANGED notPipeline

\* The layer returns an error: nothing further in runs, and the error
\* translation writes the response.
Fail(layer, kind) ==
    /\ pos' = 0
    /\ visited' = Append(visited, layer)
    /\ failedAt' = layer
    /\ response' = kind
    /\ UNCHANGED <<req, chain>>
    /\ UNCHANGED notPipeline

RunHandleError == Running("HandleError") /\ Pass("HandleError")

RunHandlePanic == Running("HandlePanic") /\ Pass("HandlePanic")

RunCheckMethod ==
    /\ Running("CheckMethod")
    /\ IF req.method \in Endpoints[req.path].methods
       THEN Pass("CheckMethod")
       ELSE Fail("CheckMethod", "MethodNotAllowed")

RunAuthenticate ==
    /\ Running("Authenticate")
    /\ IF Endpoints[req.path].authType = "" \/ req.authValid
       THEN Pass("Authenticate")
       ELSE Fail("Authenticate", "InvalidAuthToken")

RunCheckEndpointVersion ==
    /\ Running("CheckEndpointVersion")
    /\ IF req.version < Endpoints[req.path].version
       THEN Fail("CheckEndpointVersion", "UnsupportedApiVersion")
       ELSE Pass("CheckEndpointVersion")

RunCSRF ==
    /\ Running("CSRF")
    /\ IF req.method \in {"GET", "HEAD"} \/ req.csrfValid
       THEN Pass("CSRF")
       ELSE Fail("CSRF", "InvalidCsrfToken")

\* The endpoint's handler for the method: it answers, returns an error, or
\* panics (HandlePanic turns the panic into a ServerError).
RunEndpoint ==
    /\ Running("Endpoint")
    /\ IF req.outcome = "ok"
       THEN /\ pos' = 0
            /\ visited' = Append(visited, "Endpoint")
            /\ response' = "ok"
            /\ UNCHANGED <<req, chain, failedAt>>
            /\ UNCHANGED notPipeline
       ELSE Fail("Endpoint", IF req.outcome = "panic" THEN "ServerError"
                             ELSE req.outcome)

NextPipeline ==
    \/ \E path \in Paths, method \in Methods, authValid \in BOOLEAN,
          version \in 0..ApiVersion, csrfValid \in BOOLEAN,
          outcome \in {"ok", "NotFound", "panic"} :
            Arrive(path, method, authValid, version, csrfValid, outcome)
    \/ RunHandleError
    \/ RunHandlePanic
    \/ RunCheckMethod
    \/ RunAuthenticate
    \/ RunCheckEndpointVersion
    \/ RunCSRF
    \/ RunEndpoint

\* ============================================================ rate limiter
\* The mutant of QuotaMax: one action more than the quota.
QuotaOffByOne == 5 + 1

\* Server.Init: both quotas of the email rate limiter, the one of the IP and
\* the one of the email, are RateQuota{PerMin(1), 5}.
QuotaMax == 5

\* The last one-minute bucket of the model.
MaxWindow == 1

Ips == {"ip1", "ip2"}

Callers == {"c1", "c2"}

CallerIdle == [pc |-> "idle", ip |-> "", email |-> "", bucket |-> 0, limited |-> FALSE]

LimiterIdle ==
    /\ window = 0
    /\ ipCount = [i \in Ips |-> 0]
    /\ emailCount = [e \in Emails |-> 0]
    /\ mutex = ""
    /\ caller = [c \in Callers |-> CallerIdle]
    /\ allowed = [k \in Ips \X Emails |-> 0]

\* EmailRateLimiter.RateLimit(ip, email), entry: the caller takes the lock.
Lock(c, ip, email) ==
    /\ caller[c].pc = "idle"
    /\ mutex = ""
    /\ mutex' = c
    /\ caller' = [caller EXCEPT ![c] =
            [pc |-> "locked", ip |-> ip, email |-> email, bucket |-> window,
             limited |-> FALSE]]
    /\ UNCHANGED <<window, ipCount, emailCount, allowed>>
    /\ UNCHANGED notLimiter

\* The action is allowed only if every quota has budget left in the bucket.
Check(c) ==
    /\ caller[c].pc = "locked"
    /\ LET budget == /\ ipCount[caller[c].ip] < QuotaMax
                     /\ emailCount[caller[c].email] < QuotaMax
       IN  /\ caller' = [caller EXCEPT
                ![c].pc = IF budget THEN "consume" ELSE "unlock",
                ![c].bucket = window,
                ![c].limited = ~budget]
           /\ allowed' = IF budget
                         THEN [allowed EXCEPT ![<<caller[c].ip, caller[c].email>>] = @ + 1]
                         ELSE allowed
    /\ UNCHANGED <<window, ipCount, emailCount, mutex>>
    /\ UNCHANGED notLimiter

\* An allowed action consumes one unit of every quota, in the bucket it was
\* checked in (a bucket that has rolled over is discarded).
Consume(c) ==
    /\ caller[c].pc = "consume"
    /\ IF caller[c].bucket = window
       THEN /\ ipCount' = [ipCount EXCEPT ![caller[c].ip] = @ + 1]
            /\ emailCount' = [emailCount EXCEPT ![caller[c].email] = @ + 1]
       ELSE UNCHANGED <<ipCount, emailCount>>
    /\ caller' = [caller EXCEPT ![c].pc = "unlock"]
    /\ UNCHANGED <<window, mutex, allowed>>
    /\ UNCHANGED notLimiter

\* RateLimit returns caller[c].limited.
Unlock(c) ==
    /\ caller[c].pc = "unlock"
    /\ mutex' = IF mutex = c THEN "" ELSE mutex
    /\ caller' = [caller EXCEPT ![c].pc = "idle"]
    /\ UNCHANGED <<window, ipCount, emailCount, allowed>>
    /\ UNCHANGED notLimiter

\* The minute ends: the old buckets are discarded.
RollOver ==
    /\ window < MaxWindow
    /\ window' = window + 1
    /\ ipCount' = [i \in Ips |-> 0]
    /\ emailCount' = [e \in Emails |-> 0]
    /\ allowed' = [k \in Ips \X Emails |-> 0]
    /\ UNCHANGED <<mutex, caller>>
    /\ UNCHANGED notLimiter

NextLimiter ==
    \/ \E c \in Callers, ip \in Ips, e \in Emails : Lock(c, ip, e)
    \/ \E c \in Callers : Check(c)
    \/ \E c \in Callers : Consume(c)
    \/ \E c \in Callers : Unlock(c)
    \/ RollOver

\* ====================================================== start and shutdown
\* The last day of the model.
MaxDays == 2

\* Server.Init: the cleaner deletes the AuthRequests created more than 24
\* hours (one day) before the sweep.
StaleAge == 1

Connections == {"h1", "h2"}

Keys == {1, 2}

Absent == -1

Deleted == -2

\* The predicate Server.Init gives the cleaner: Created.Before(now - 24h).
IsStale(created) == created < day - StaleAge

\* The server as constructed and not yet started, no cleaner made.
ShutdownIdle ==
    /\ srv = "starting"
    /\ accepting = FALSE
    /\ handler = [h \in Connections |-> "idle"]
    /\ graceExpired = FALSE
    /\ storage = "unopened"
    /\ cleaner = "absent"
    /\ todo = {}
    /\ entity = [k \in Keys |-> Absent]
    /\ day = 0
    /\ stopReturned = FALSE
    /\ lateDelete = FALSE
    /\ closedAccess = {}

\* Server.Init has returned: either it opened the storage and created and
\* started the cleaner, or the server is started with no cleaner.
InitShutdown ==
    /\ srv = "starting"
    /\ accepting = FALSE
    /\ handler = [h \in Connections |-> "idle"]
    /\ graceExpired = FALSE
    /\ \/ storage = "open" /\ cleaner = "idle"
       \/ storage = "unopened" /\ cleaner = "absent"
    /\ todo = {}
    /\ entity = [k \in Keys |-> Absent]
    /\ day = 0
    /\ stopReturned = FALSE
    /\ lateDelete = FALSE
    /\ closedAccess = {}

\* Server.Start: ListenAndServe listens and serves.
Listen ==
    /\ srv = "starting"
    /\ srv' = "serving"
    /\ accepting' = TRUE
    /\ UNCHANGED <<handler, graceExpired, storage, cleaner, todo, entity, day,
                   stopReturned, lateDelete, closedAccess>>
    /\ UNCHANGED notShutdown

\* Server.Start: ListenAndServe returns an error at once.
ListenFails ==
    /\ srv = "starting"
    /\ srv' = "cleanup"
    /\ UNCHANGED <<accepting, handler, graceExpired, storage, cleaner, todo, entity,
                   day, stopReturned, lateDelete, closedAccess>>
    /\ UNCHANGED notShutdown

\* graceful.Server: a connection is accepted and its handler starts.
Accept(h) ==
    /\ accepting
    /\ handler[h] = "idle"
    /\ handler' = [handler EXCEPT ![h] = "running"]
    /\ UNCHANGED <<srv, accepting, graceExpired, storage, cleaner, todo, entity,
                   day, stopReturned, lateDelete, closedAccess>>
    /\ UNCHANGED notShutdown

\* A request handler's storage round trip: it stores an AuthRequest created
\* now, under a key not used before.
HandlerStore(h, k) ==
    /\ handler[h] = "running"
    /\ entity[k] = Absent
    /\ handler' = [handler EXCEPT ![h] = "stored"]
    /\ IF storage = "open"
       THEN entity' = [entity EXCEPT ![k] = day] /\ closedAccess' = closedAccess
       ELSE entity' = entity /\
            closedAccess' = IF storage = "closed" THEN closedAccess \cup {"handler"}
                            ELSE closedAccess
    /\ UNCHANGED <<srv, accepting, graceExpired, storage, cleaner, todo, day,
                   stopReturned, lateDelete>>
    /\ UNCHANGED notShutdown

\* The handler returns and its connection is done.
Finish(h) ==
    /\ handler[h] \in {"running", "stored"}
    /\ handler' = [handler EXCEPT ![h] = "idle"]
    /\ UNCHANGED <<srv, accepting, graceExpired, storage, cleaner, todo, entity,
                   day, stopReturned, lateDelete, closedAccess>>
    /\ UNCHANGED notShutdown

\* graceful.Server: the shutdown signal closes the listener.
Shutdown ==
    /\ srv = "serving"
    /\ srv' = "draining"
    /\ accepting' = FALSE
    /\ UNCHANGED <<handler, graceExpired, storage, cleaner, todo, entity, day,
                   stopReturned, lateDelete, closedAccess>>
    /\ UNCHANGED notShutdown

\* graceful.Server: every connection is done, ListenAndServe returns.
Drained ==
    /\ srv = "draining"
    /\ \A h \in Connections : handler[h] = "idle"
    /\ srv' = "cleanup"
    /\ UNCHANGED <<accepting, handler, graceExpired, storage, cleaner, todo, entity,
                   day, stopReturned, lateDelete, closedAccess>>
    /\ UNCHANGED notShutdown

\* graceful.Server: Timeout (10 s) has passed with connections still open;
\* they are closed and ListenAndServe returns, their handlers still running.
GraceTimeout ==
    /\ srv = "draining"
    /\ \E h \in Connections : handler[h] # "idle"
    /\ srv' = "cleanup"
    /\ graceExpired' = TRUE
    /\ UNCHANGED <<accepting, handler, storage, cleaner, todo, entity, day,
                   stopReturned, lateDelete, closedAccess>>
    /\ UNCHANGED notShutdown

\* The mutant of StorageCleanerStop: Stop returns while a sweep is in flight.
StorageCleanerStopNoWait ==
    /\ cleaner' = IF cleaner = "idle" THEN "stopped" ELSE cleaner
    /\ stopReturned' = TRUE

\* StorageCleaner.Stop: cancels the sweeps to come, and returns once no sweep
\* is in flight.
StorageCleanerStop ==
    /\ cleaner = "idle"
    /\ cleaner' = "stopped"
    /\ stopReturned' = TRUE

\* Server.CleanUp, first half: the cleaner, if there is one, is stopped.
CleanUpStop ==
    /\ srv = "cleanup"
    /\ IF cleaner # "absent"
       THEN StorageCleanerStop
       ELSE UNCHANGED <<cleaner, stopReturned>>
    /\ srv' = "stopped"
    /\ UNCHANGED <<accepting, handler, graceExpired, storage, todo, entity, day,
                   lateDelete, closedAccess>>
    /\ UNCHANGED notShutdown

\* The mutant of CleanUpClose: the storage closed without stopping the cleaner.
CleanUpCloseFirst ==
    /\ srv \in {"cleanup", "stopped"}
    /\ storage' = "closed"
    /\ srv' = "exited"
    /\ UNCHANGED <<accepting, handler, graceExpired, cleaner, todo, entity, day,
                   stopReturned, lateDelete, closedAccess>>
    /\ UNCHANGED notShutdown

\* Server.CleanUp, second half: Storage.Close, and Start returns.
CleanUpClose ==
    /\ srv = "stopped"
    /\ storage' = "closed"
    /\ srv' = "exited"
    /\ UNCHANGED <<accepting, handler, graceExpired, cleaner, todo, entity, day,
                   stopReturned, lateDelete, closedAccess>>
    /\ UNCHANGED notShutdown

\* StorageCleaner: the ticker fires and a sweep lists the stored keys.
SweepBegin ==
    /\ cleaner = "idle"
    /\ cleaner' = "sweeping"
    /\ todo' = {k \in Keys : entity[k] >= 0}
    /\ closedAccess' = IF storage = "closed" THEN closedAccess \cup {"cleaner"}
                       ELSE closedAccess
    /\ UNCHANGED <<srv, accepting, handler, graceExpired, storage, entity, day,
                   stopReturned, lateDelete>>
    /\ UNCHANGED notShutdown

\* StorageCleaner: the sweep loads one entity and deletes it if it is stale.
SweepStep(k) ==
    /\ cleaner = "sweeping"
    /\ k \in todo
    /\ todo' = todo \ {k}
    /\ IF storage = "open" /\ entity[k] >= 0 /\ IsStale(entity[k])
       THEN /\ entity' = [entity EXCEPT ![k] = Deleted]
            /\ lateDelete' = (lateDelete \/ stopReturned)
       ELSE UNCHANGED <<entity, lateDelete>>
    /\ closedAccess' = IF storage = "closed" THEN closedAccess \cup {"cleaner"}
                       ELSE closedAccess
    /\ UNCHANGED <<srv, accepting, handler, graceExpired, storage, cleaner, day,
                   stopReturned>>
    /\ UNCHANGED notShutdown

\* StorageCleaner: the sweep is over; the cleaner waits for the next tick or
\* for Stop.
SweepEnd ==
    /\ cleaner = "sweeping"
    /\ todo = {}
    /\ cleaner' = "idle"
    /\ UNCHANGED <<srv, accepting, handler, graceExpired, storage, todo, entity,
                   day, stopReturned, lateDelete, closedAccess>>
    /\ UNCHANGED notShutdown

NextDay ==
    /\ day < MaxDays
    /\ day' = day + 1
    /\ UNCHANGED <<srv, accepting, handler, graceExpired, storage, cleaner, todo,
                   entity, stopReturned, lateDelete, closedAccess>>
    /\ UNCHANGED notShutdown

NextShutdown ==
    \/ Listen
    \/ ListenFails
    \/ \E h \in Connections : Accept(h)
    \/ \E h \in Connections, k \in Keys : HandlerStore(h, k)
    \/ \E h \in Connections : Finish(h)
    \/ Shutdown
    \/ Drained
    \/ GraceTimeout
    \/ CleanUpStop
    \/ CleanUpClose
    \/ SweepBegin
    \/ \E k \in Keys : SweepStep(k)
    \/ SweepEnd
    \/ NextDay

\* ======================================================== error translation
\* The longest Accept header of the model, in parts.
MaxAcceptLen == 2

\* An Accept header is the concatenation of its parts, in order.
AcceptParts ==
    {"application/json", "application/vnd.padlock", ";version=1", "text/html", "*/*"}

RECURSIVE SeqsUpTo(_, _)
SeqsUpTo(S, n) ==
    IF n = 0 THEN {<<>>}
    ELSE LET shorter == SeqsUpTo(S, n - 1)
         IN  shorter \cup {Append(q, x) : q \in shorter, x \in S}

Accepts == SeqsUpTo(AcceptParts, MaxAcceptLen)

\* The kinds of ErrorResponse; "other" is an error of no such kind.
ErrorKinds ==
    {"InvalidAuthToken", "ExpiredAuthToken", "InvalidCsrfToken",
     "UnsupportedApiVersion", "MethodNotAllowed", "NotFound", "ServerError"}

NoFailure == [accept |-> <<>>, e |-> "", renders |-> TRUE]

NoResponse == [contentType |-> "", body |-> "", kind |-> "", status |-> 0]

ErrorsIdle ==
    /\ failure = NoFailure
    /\ written = NoResponse

\* strings.HasPrefix(accept, prefix), for a prefix that is one part.
HasPrefix(accept, prefix) == Len(accept) > 0 /\ accept[1] = prefix

\* strings.Contains(accept, part)
Contains(accept, part) == \E i \in DOMAIN accept : accept[i] = part

\* The mutant of ErrorResponseOf: the HTML page for every request that does
\* not ask for JSON.
ErrorResponseHtmlDefault(accept, e, renders) ==
    LET err == IF e \in ErrorKinds THEN e ELSE "ServerError"
    IN  IF accept = <<"application/json">> \/ HasPrefix(accept, "application/vnd.padlock")
        THEN [contentType |-> "application/json", body |-> "json", kind |-> err,
              status |-> Status(err)]
        ELSE [contentType |-> "text/html", body |-> "html", kind |-> err,
              status |-> Status(err)]

\* Server.HandleError: the response written for the error e of a request with
\* the given Accept header; renders tells whether the error page template
\* executes without error.
ErrorResponseOf(accept, e, renders) ==
    LET err == IF e \in ErrorKinds THEN e ELSE "ServerError"
        json == accept = <<"application/json">>
                    \/ HasPrefix(accept, "application/vnd.padlock")
        html == ~json /\ Contains(accept, "text/html")
        contentType == IF json THEN "application/json"
                       ELSE IF html THEN "text/html" ELSE ""
        rendered == IF json THEN "json"
                    ELSE IF html /\ renders THEN "html"
                    ELSE ""
    IN  [contentType |-> contentType,
         body |-> IF rendered = "" THEN "message" ELSE rendered,
         kind |-> err,
         status |-> Status(err)]

\* An inner layer returns the error e for a request with the given Accept.
ReturnError(accept, e, renders) ==
    /\ failure = NoFailure
    /\ failure' = [accept |-> accept, e |-> e, renders |-> renders]
    /\ written' = NoResponse
    /\ UNCHANGED notErrors

\* Server.HandleError
HandleError ==
    /\ failure # NoFailure
    /\ written = NoResponse
    /\ written' = ErrorResponseOf(failure.accept, failure.e, failure.renders)
    /\ UNCHANGED failure
    /\ UNCHANGED notErrors

\* The response is sent; the next request may fail.
Respond ==
    /\ written # NoResponse
    /\ failure' = NoFailure
    /\ written' = NoResponse
    /\ UNCHANGED notErrors

NextErrors ==
    \/ \E accept \in Accepts, e \in ErrorKinds \cup {"other"}, renders \in BOOLEAN :
            ReturnError(accept, e, renders)
    \/ HandleError
    \/ Respond

\* ======================================================= versionFromRequest
\* The longest Accept header of a versioned request, in parts.
MaxHeaderLen == 3

\* The longest value of a form field or query parameter, in characters.
MaxValueLen == 2

\* "application/vnd.padlock;version=", as one part of an Accept header.
VndPadlock == "application/vnd.padlock;version="

Digits == {"1", "2"}

\* The parts of the Accept headers and the characters of the values.
HeaderParts == {VndPadlock, ","} \cup Digits

ValueChars == Digits \cup {"x"}

NoVersion == -1

DigitValue(d) == IF d = "1" THEN 1 ELSE 2

\* strconv.Atoi, its error dropped: the decimal value of a non-empty string of
\* digits, 0 for every other string.
RECURSIVE Decimal(_)
Decimal(str) ==
    IF str = <<>> THEN 0
    ELSE 10 * Decimal(SubSeq(str, 1, Len(str) - 1)) + DigitValue(str[Len(str)])

Atoi(str) ==
    IF str # <<>> /\ \A i \in DOMAIN str : str[i] \in Digits
    THEN Decimal(str)
    ELSE 0

\* regexp "^application/vnd.padlock;version=(\d)$": the header is the media
\* type followed by exactly one digit.
MatchString(accept) ==
    /\ Len(accept) = 2
    /\ accept[1] = VndPadlock
    /\ accept[2] \in Digits

\* The mutant of versionFromRequest: the query parameter before the form field.
versionFromRequestQueryFirst(r) ==
    LET v1 == IF MatchString(r.accept) THEN <<r.accept[2]>> ELSE r.query
        v2 == IF v1 = <<>> THEN r.form ELSE v1
    IN  Atoi(v2)

\* versionFromRequest
versionFromRequest(r) ==
    LET v1 == IF MatchString(r.accept) THEN <<r.accept[2]>> ELSE r.form
        v2 == IF v1 = <<>> THEN r.query ELSE v1
    IN  Atoi(v2)

VersionIdle ==
    /\ request = [accept |-> <<>>, form |-> <<>>, query |-> <<>>]
    /\ clientVersion = NoVersion

\* The requests of the model: every Accept header, form field and query
\* parameter within the bounds.
VersionInputs ==
    /\ request \in [accept : SeqsUpTo(HeaderParts, MaxHeaderLen),
                    form : SeqsUpTo(ValueChars, MaxValueLen),
                    query : SeqsUpTo(ValueChars, MaxValueLen)]
    /\ clientVersion = NoVersion

\* The call of versionFromRequest for the request.
CallVersionFromRequest ==
    /\ clientVersion = NoVersion
    /\ clientVersion' = versionFromRequest(request)
    /\ UNCHANGED request
    /\ UNCHANGED notVersion

NextVersion == CallVersionFromRequest

\* ============================================ Server.SendDeprecatedVersionEmail
\* The requests served at the same time.
Requests == {"r1", "r2"}

NoCall ==
    [pc |-> "idle", email |-> "", ip |-> "", renders |-> TRUE,
     limited |-> FALSE, result |-> "", outcome |-> ""]

DeprecatedIdle ==
    /\ dep = [d \in Requests |-> NoCall]
    /\ mail = [d \in Requests |-> "none"]
    /\ logged = {}

\* The address the notification goes to: the email of the Authorization
\* header, else the URL path of a DELETE, else the form field email of a PUT
\* or POST; "" if none of them gives one.
Recipient(authEmail, method, pathEmail, formEmail) ==
    LET e1 == authEmail
        e2 == IF e1 = "" /\ method = "DELETE" THEN pathEmail ELSE e1
    IN  IF e2 = "" /\ (method = "PUT" \/ method = "POST") THEN formEmail ELSE e2

\* SendDeprecatedVersionEmail is called for a request.
CallSend(d, authEmail, method, pathEmail, formEmail, ip) ==
    /\ dep[d].pc = "idle"
    /\ mail[d] # "pending"
    /\ LET email == Recipient(authEmail, method, pathEmail, formEmail)
       IN  dep' = [dep EXCEPT ![d] =
                [pc |-> IF email # "" THEN "rateLimit" ELSE "returned",
                 email |-> email, ip |-> ip, renders |-> TRUE,
                 limited |-> FALSE, result |-> IF email # "" THEN "" ELSE "nil",
                 outcome |-> ""]]
    /\ mail' = [mail EXCEPT ![d] = "none"]
    /\ logged' = logged \ {d}
    /\ UNCHANGED notDeprecated

\* The mutant of RateLimitEmail: the email is rendered whatever the limiter says.
RateLimitEmailIgnored(d) ==
    LET budget == /\ ipCount[dep[d].ip] < QuotaMax
                  /\ emailCount[dep[d].email] < QuotaMax
    IN  /\ dep[d].pc = "rateLimit"
        /\ mutex = ""
        /\ IF budget
           THEN /\ ipCount' = [ipCount EXCEPT ![dep[d].ip] = @ + 1]
                /\ emailCount' = [emailCount EXCEPT ![dep[d].email] = @ + 1]
           ELSE UNCHANGED <<ipCount, emailCount>>
        /\ dep' = [dep EXCEPT ![d].limited = ~budget, ![d].pc = "render"]
        /\ UNCHANGED <<mail, logged, window, mutex, caller, allowed>>
        /\ UNCHANGED notDeprecatedNorLimiter

\* emailRateLimiter.RateLimit(getIp(r), email), check and consume in one step:
\* when it reports limited, SendDeprecatedVersionEmail returns nil.
RateLimitEmail(d) ==
    LET budget == /\ ipCount[dep[d].ip] < QuotaMax
                  /\ emailCount[dep[d].email] < QuotaMax
    IN  /\ dep[d].pc = "rateLimit"
        /\ mutex = ""
        /\ IF budget
           THEN /\ ipCount' = [ipCount EXCEPT ![dep[d].ip] = @ + 1]
                /\ emailCount' = [emailCount EXCEPT ![dep[d].email] = @ + 1]
           ELSE UNCHANGED <<ipCount, emailCount>>
        /\ dep' = [dep EXCEPT ![d].limited = ~budget,
                              ![d].pc = IF budget THEN "render" ELSE "returned",
                              ![d].result = IF budget THEN "" ELSE "nil"]
        /\ UNCHANGED <<mail, logged, window, mutex, caller, allowed>>
        /\ UNCHANGED notDeprecatedNorLimiter

\* Templates.DeprecatedVersionEmail.Execute, which renders the email or fails:
\* its error is returned; without one the goroutine that sends the email is
\* started and nil is returned.
RenderEmail(d, renders) ==
    /\ dep[d].pc = "render"
    /\ IF renders
       THEN /\ mail' = [mail EXCEPT ![d] = "pending"]
            /\ dep' = [dep EXCEPT ![d].pc = "returned", ![d].result = "nil"]
       ELSE /\ mail' = mail
            /\ dep' = [dep EXCEPT ![d].pc = "returned", ![d].result = "err",
                                  ![d].renders = FALSE]
    /\ UNCHANGED logged
    /\ UNCHANGED notDeprecated

\* The goroutine: Sender.Send, which sends the email or fails, its error logged.
SendEmail(d, sends) ==
    /\ mail[d] = "pending"
    /\ IF sends
       THEN /\ mail' = [mail EXCEPT ![d] = "sent"]
            /\ logged' = logged
       ELSE /\ mail' = [mail EXCEPT ![d] = "failed"]
            /\ logged' = logged \cup {d}
    /\ UNCHANGED dep
    /\ UNCHANGED notDeprecated

\* The version check goes on with the request, whatever
\* SendDeprecatedVersionEmail returned.
CarryOn(d) ==
    /\ dep[d].pc = "returned"
    /\ dep' = [dep EXCEPT ![d].pc = "idle", ![d].ip = "", ![d].outcome = "served"]
    /\ UNCHANGED <<mail, logged>>
    /\ UNCHANGED notDeprecated

NextDeprecated ==
    \/ \E d \in Requests, authEmail \in {"", "a@x"},
          method \in {"GET", "DELETE", "POST"},
          pathEmail \in {"", "b@x"}, formEmail \in {"", "b@x"},
          ip \in Ips :
            CallSend(d, authEmail, method, pathEmail, formEmail, ip)
    \/ \E d \in Requests : RateLimitEmail(d)
    \/ \E d \in Requests, renders \in BOOLEAN : RenderEmail(d, renders)
    \/ \E d \in Requests, sends \in BOOLEAN : SendEmail(d, sends)
    \/ \E d \in Requests : CarryOn(d)

\* ============================================================ configuration
\* The expiry window of the deployment.
ConfigDefault == expiry = ExpiryWindow

\* ==================================================== the frame of Authenticate
\* A deployment whose tokens outlive a tick of the clock.
LongWindow == ExpiryWindow + 1

\* The deployments of the model: the expiry window is short or long.
ConfigAny == expiry \in {ExpiryWindow, LongWindow}

\* Authenticate beside the requests that add tokens to the Accounts.
NextFrame ==
    \/ \E w \in Workers, e \in Emails, t \in TokenIds :
            AuthenticateGet(w, FALSE, e, t)
    \/ \E w \in Workers : AuthenticateGet(w, TRUE, "a@x", 1)
    \/ \E w \in Workers : AuthenticatePut(w)
    \/ \E e \in Emails : RequestToken(e)
    \/ \E w \in Workers, t \in TokenIds : ActivateGetRequest(w, t)
    \/ \E w \in Workers : ActivateGetAccount(w)
    \/ \E w \in Workers : ActivateDelete(w)
    \/ \E w \in Workers : ActivatePut(w)
    \/ Tick

\* ================================================================ Server.Init
\* The configured cookie secret: none, valid base64, or not base64.
Secrets == {"", "valid", "invalid"}

\* The calls of Server.Init that can return an error.
Fallible == {"randomBytes", "LoadTemplates", "Storage.Open", "NewEmailRateLimiter",
             "NewStorageCleaner"}

NotBooted ==
    [pc |-> "secret", secret |-> "unset", endpoints |-> FALSE, templates |-> FALSE,
     storageOpen |-> FALSE, limiter |-> FALSE, cleanerStarted |-> FALSE,
     result |-> ""]

InitIdle ==
    /\ config = [secret |-> "", templates |-> FALSE, failing |-> {}]
    /\ booted = NotBooted

\* The servers Server.Init is called on: every configuration of the secret,
\* the templates given or not, and every set of calls that fail.
InitInputs ==
    /\ config \in [secret : Secrets, templates : BOOLEAN, failing : SUBSET Fallible]
    /\ booted = [NotBooted EXCEPT !.templates = config.templates]

Return(result) == [booted EXCEPT !.pc = "returned", !.result = result]

\* Server.Init, the secret: base64.StdEncoding.DecodeString returns an error
\* for a secret that is not base64, with the bytes decoded before the error;
\* the code keeps those bytes when err != nil and returns err, nil, otherwise.
InitSecret ==
    /\ booted.pc = "secret"
    /\ booted' =
        IF config.secret # ""
        THEN IF config.secret = "invalid"
             THEN [booted EXCEPT !.secret = "partial", !.pc = "endpoints"]
             ELSE Return("nil")
        ELSE IF "randomBytes" \in config.failing
             THEN Return("err")
             ELSE [booted EXCEPT !.secret = "random", !.pc = "endpoints"]
    /\ UNCHANGED config
    /\ UNCHANGED notInit

\* server.InitEndpoints()
InitRegister ==
    /\ booted.pc = "endpoints"
    /\ booted' = [booted EXCEPT !.endpoints = TRUE, !.pc = "templates"]
    /\ UNCHANGED config
    /\ UNCHANGED notInit

\* The templates are loaded unless the server was given some.
InitTemplates ==
    /\ booted.pc = "templates"
    /\ booted' =
        IF ~booted.templates /\ "LoadTemplates" \in config.failing
        THEN Return("err")
        ELSE [booted EXCEPT !.templates = TRUE, !.pc = "storage"]
    /\ UNCHANGED config
    /\ UNCHANGED notInit

\* server.Storage.Open()
InitStorage ==
    /\ booted.pc = "storage"
    /\ booted' =
        IF "Storage.Open" \in config.failing
        THEN Return("err")
        ELSE [booted EXCEPT !.storageOpen = TRUE, !.pc = "limiter"]
    /\ UNCHANGED config
    /\ UNCHANGED notInit

\* NewEmailRateLimiter
InitLimiter ==
    /\ booted.pc = "limiter"
    /\ booted' =
        IF "NewEmailRateLimiter" \in config.failing
        THEN Return("err")
        ELSE [booted EXCEPT !.limiter = TRUE, !.pc = "cleaner"]
    /\ UNCHANGED config
    /\ UNCHANGED notInit

\* NewStorageCleaner and cl.Start, then return nil.
InitCleaner ==
    /\ booted.pc = "cleaner"
    /\ booted' =
        IF "NewStorageCleaner" \in config.failing
        THEN Return("err")
        ELSE [Return("nil") EXCEPT !.cleanerStarted = TRUE]
    /\ UNCHANGED config
    /\ UNCHANGED notInit

NextInit ==
    \/ InitSecret
    \/ InitRegister
    \/ InitTemplates
    \/ InitStorage
    \/ InitLimiter
    \/ InitCleaner

\* =========================================================== specifications
Init == InitLifecycle /\ PipelineIdle /\ LimiterIdle /\ ShutdownIdle
    /\ ErrorsIdle /\ VersionIdle /\ DeprecatedIdle /\ ConfigDefault /\ InitIdle

\* The token state machine under concurrent request workers.
Spec == Init /\ [][Next]_vars

\* One request through the pipeline of its endpoint.
SpecPipeline == Init /\ [][NextPipeline]_vars

\* Concurrent callers of the e-mail rate limiter.
SpecLimiter == Init /\ [][NextLimiter]_vars

\* The server after Server.Init, about to Start.
InitStarted == InitLifecycle /\ PipelineIdle /\ LimiterIdle /\ InitShutdown
    /\ ErrorsIdle /\ VersionIdle /\ DeprecatedIdle /\ ConfigDefault /\ InitIdle

\* Server.Start to its return, with the request handlers and the cleaner.
SpecShutdown == InitStarted /\ [][NextShutdown]_vars

\* The errors of inner layers through Server.HandleError.
SpecErrors == Init /\ [][NextErrors]_vars

\* The requests whose version is to be found.
InitVersion == InitLifecycle /\ PipelineIdle /\ LimiterIdle /\ ShutdownIdle
    /\ ErrorsIdle /\ VersionInputs /\ DeprecatedIdle /\ ConfigDefault /\ InitIdle

\* versionFromRequest on every request within the bounds.
SpecVersion == InitVersion /\ [][NextVersion]_vars

\* Concurrent requests of a deprecated version, each notified by email.
SpecDeprecated == Init /\ [][NextDeprecated]_vars

InitFrame == InitLifecycle /\ PipelineIdle /\ LimiterIdle /\ ShutdownIdle
    /\ ErrorsIdle /\ VersionIdle /\ DeprecatedIdle /\ ConfigAny /\ InitIdle

\* Authenticate and the activation of tokens, under either expiry window.
SpecFrame == InitFrame /\ [][NextFrame]_vars

InitServer == InitLifecycle /\ PipelineIdle /\ LimiterIdle /\ ShutdownIdle
    /\ ErrorsIdle /\ VersionIdle /\ DeprecatedIdle /\ ConfigDefault /\ InitInputs

\* Server.Init, from its call to its return.
SpecInit == InitServer /\ [][NextInit]_vars

\* ================================================================== claims
InFlightAuth(w) == worker[w].pc = "authPut"

InFlightActivate(w) == worker[w].pc \in {"actGetAccount", "actDelete", "actPut"}

\* C1: Authenticate never succeeds with a token that is still a pending
\* AuthRequest, and no pending token is in a stored Account; Authenticate goes
\* on to succeed exactly when the credentials are well-formed and the stored
\* Account of the presented email holds a token with the presented identifier
\* that is not expired.
C1_AuthenticateExactlyUsable ==
    /\ \A e \in Emails : \A t \in TokenIdsOf(accounts[e]) : ~Pending(t)
    /\ \A w \in Workers : InFlightAuth(w) =>
            /\ ~worker[w].info.pend
            /\ ~worker[w].info.malformed
            /\ worker[w].info.seen = "usable"
    /\ last.op = "auth" =>
            /\ last.pend => last.kind # "ok"
            /\ last.kind = "ok" <=> (~last.malformed /\ last.seen = "usable")

C1_Witness ==
    /\ last.op = "auth" /\ last.kind = "ok" /\ last.st = "active"
    /\ \E r \in authRequests : r.email = last.email

\* C2: Authenticate with well-formed credentials for an email that has no
\* stored Account returns InvalidAuthToken, status 401, never NotFound: what it
\* returns when the Account exists and holds no token with that identifier.
C2_NoAccountIsInvalidAuthToken ==
    (last.op = "auth" /\ ~last.malformed /\ (~last.existed \/ last.seen = "none"))
        => /\ last.kind = "InvalidAuthToken"
           /\ Status(last.kind) = 401

C2_Witness ==
    /\ last.op = "auth" /\ ~last.malformed /\ ~last.existed
    /\ last.kind = "InvalidAuthToken"
    /\ \E e \in Emails : accounts[e].exists

\* C3: once an ActivateToken of a reference has succeeded, every later
\* ActivateToken of that reference returns NotFound (none is in flight that
\* started after the success), and no stored Account holds two tokens with
\* the same identifier.
C3_ActivatedOnce ==
    /\ last.op = "activate" /\ last.st # "none" => last.kind = "NotFound"
    /\ \A w \in Workers : InFlightActivate(w) => worker[w].info.st = "none"
    /\ \A e \in Emails :
            Cardinality(TokenIdsOf(accounts[e])) = Len(accounts[e].tokens)

C3_Witness ==
    /\ last.op = "activate" /\ last.kind = "NotFound" /\ last.st = "active"
    /\ \E e \in Emails : last.id \in TokenIdsOf(accounts[e])

\* C4 as stated: an Authenticate that starts after the RevokeToken of its
\* token has completed (the token not activated since) returns
\* InvalidAuthToken.
C4_RevokedNeverAuthenticates ==
    /\ last.op = "auth" /\ last.st \in {"revoked", "revokedQuiet"}
            => last.kind = "InvalidAuthToken"
    /\ \A w \in Workers : InFlightAuth(w) =>
            worker[w].info.st \notin {"revoked", "revokedQuiet"}

\* C4, amended: when the RevokeToken completed while no other request held a
\* copy of the token (in an Account it had loaded and not yet persisted, or as
\* the AuthRequest it was activating), the token is in no stored Account and in
\* no request's copy from then on, and every Authenticate that starts after it
\* returns InvalidAuthToken.
C4_QuietRevokeIsFinal ==
    /\ last.op = "auth" /\ last.st = "revokedQuiet"
            => last.kind = "InvalidAuthToken"
    /\ \A w \in Workers : InFlightAuth(w) => worker[w].info.st # "revokedQuiet"
    /\ \A t \in TokenIds : serial[t].st = "revokedQuiet" =>
            /\ \A e \in Emails : t \notin TokenIdsOf(accounts[e])
            /\ \A w \in Workers : t \notin TokenIdsOf(worker[w].acc)

C4_Witness ==
    /\ last.op = "auth" /\ last.st = "revokedQuiet"
    /\ ~last.malformed /\ last.existed
    /\ last.kind = "InvalidAuthToken"

\* The tokens the completed activations and revocations leave in the Account.
Expected(e) == {t \in TokenIds : serial[t].st = "active" /\ serial[t].email = e}

\* C10: each Put replaces the stored Account as a whole, so the stored Account
\* holds exactly the tokens that the completed activations and revocations
\* leave in it, except where a request has persisted a copy it had loaded before
\* another request's Put: there an update can be lost.
C10_LostUpdateOnlyByStaleWrite ==
    \A e \in Emails :
        TokenIdsOf(accounts[e]) # Expected(e) => e \in staleWrite

\* A token whose activation has completed, never revoked, is missing from the
\* stored Account.
C10_Witness ==
    \E e \in Emails : \E t \in Expected(e) :
        /\ t \notin TokenIdsOf(accounts[e])
        /\ e \in staleWrite
        /\ \A w \in Workers : worker[w].pc = "idle"

Range(seq) == {seq[i] : i \in DOMAIN seq}

\* The place of a layer in an order of the layers.
Rank(order, layer) == CHOOSE i \in DOMAIN order : order[i] = layer

\* The layers that ran did so in this order, starting with its first, none
\* left out but the CSRF validation.
InOrder(order) ==
    /\ Range(visited) \subseteq Range(order)
    /\ visited # <<>> => visited[1] = order[1]
    /\ \A i \in 1..(Len(visited) - 1) :
          \/ Rank(order, visited[i + 1]) = Rank(order, visited[i]) + 1
          \/ /\ Rank(order, visited[i + 1]) = Rank(order, visited[i]) + 2
             /\ order[Rank(order, visited[i]) + 1] = "CSRF"

\* A layer that fails is the last to run, and the handler does not run; a
\* request that no layer fails reaches the handler.
ShortCircuit ==
    /\ failedAt # "" => pos = 0 /\ visited[Len(visited)] = failedAt
    /\ failedAt \notin {"", "Endpoint"} => "Endpoint" \notin Range(visited)
    /\ (pos = 0 /\ visited # <<>> /\ failedAt = "")
            => visited[Len(visited)] = "Endpoint" /\ response = "ok"

\* C5 as stated: the layers run in the order panic containment, error
\* translation, method validation, authentication, API-version validation,
\* CSRF validation, handler, and a failing layer short-circuits.
C5_PanicContainmentOutermost ==
    /\ InOrder(<<"HandlePanic", "HandleError", "CheckMethod", "Authenticate",
                 "CheckEndpointVersion", "CSRF", "Endpoint">>)
    /\ ShortCircuit

\* C5, amended: the layers run in the order error translation (outermost),
\* panic containment, method validation, authentication, API-version
\* validation, CSRF validation where the pipeline has one, handler, and a
\* failing layer short-circuits.
C5_ErrorTranslationOutermost ==
    /\ InOrder(<<"HandleError", "HandlePanic", "CheckMethod", "Authenticate",
                 "CheckEndpointVersion", "CSRF", "Endpoint">>)
    /\ ShortCircuit

C5_Witness ==
    /\ visited = <<"HandleError", "HandlePanic", "CheckMethod", "Authenticate",
                   "CheckEndpointVersion", "CSRF">>
    /\ failedAt = "CSRF"
    /\ response = "InvalidCsrfToken"

\* C6: a request is served by a pipeline with a CSRF validation layer only at
\* an endpoint whose authentication type is "web".
C6_CsrfOnlyForWeb ==
    "CSRF" \in Range(chain) => Endpoints[req.path].authType = "web"


\* ------------------------------------------------------------------- C7
\* The actions allowed in the current bucket under one IP, and under one email.
AllowedIp(i) == allowed[<<i, "a@x">>] + allowed[<<i, "b@x">>]

AllowedEmail(e) == allowed[<<"ip1", e>>] + allowed[<<"ip2", e>>]

\* C7: under any interleaving of concurrent callers, at most 5 actions are
\* allowed for a key within one window, and a caller is reported as limited in
\* a window only when one of its quotas has allowed 5 actions in that window;
\* so once the window has rolled over, actions are allowed again.
C7_AtMostFivePerWindow ==
    /\ \A i \in Ips : AllowedIp(i) <= 5
    /\ \A e \in Emails : AllowedEmail(e) <= 5
    /\ \A c \in Callers :
        (caller[c].limited /\ caller[c].bucket = window)
            => (AllowedIp(caller[c].ip) = 5 \/ AllowedEmail(caller[c].email) = 5)

\* A caller was reported as limited in the first window, and after the
\* roll-over another caller's action for the same key has been allowed.
C7_Witness ==
    /\ window = 1
    /\ caller["c1"].limited /\ caller["c1"].bucket = 0
    /\ caller["c1"].ip = "ip1" /\ caller["c1"].email = "a@x"
    /\ caller["c2"].pc = "unlock" /\ ~caller["c2"].limited
    /\ caller["c2"].bucket = 1
    /\ caller["c2"].ip = "ip1" /\ caller["c2"].email = "a@x"
    /\ allowed[<<"ip1", "a@x">>] = 1

\* ------------------------------------------------------------------- C8
\* C8: in every state after Stop has returned, no sweep is running and no
\* sweep deletes an entity.
C8_NoSweepAfterStop ==
    stopReturned =>
        /\ cleaner = "stopped"
        /\ todo = {}
        /\ ~lateDelete

\* Stop has returned after a sweep that deleted an entity, and a stale entity
\* is left that a later sweep would delete.
C8_Witness ==
    /\ stopReturned
    /\ \E k \in Keys : entity[k] = Deleted
    /\ \E k \in Keys : entity[k] >= 0 /\ IsStale(entity[k])

\* ------------------------------------------------------------------- C9
\* The order of shutdown: the cleaner is stopped only after the listener is
\* closed, and the storage is closed only after the cleaner is stopped.
ShutdownOrder ==
    /\ srv \in {"stopped", "exited"} => ~accepting
    /\ cleaner = "stopped" => ~accepting
    /\ storage = "closed" =>
        /\ srv = "exited"
        /\ ~accepting
        /\ cleaner \in {"stopped", "absent"}
        /\ todo = {}
    /\ "cleaner" \notin closedAccess

\* C9, as claimed: the order of shutdown holds and the storage is never closed
\* while a request handler or a cleaner sweep can still access it.
C9_NeverClosedWhileAccessible ==
    /\ ShutdownOrder
    /\ storage = "closed" => \A h \in Connections : handler[h] # "running"
    /\ "handler" \notin closedAccess

\* C9, amended: the order of shutdown holds and the storage is never closed
\* while the server accepts connections or a sweep can access it; a request
\* handler can still access the closed storage only if it was still running
\* when the grace period expired.
C9_ClosedOnlyAfterGrace ==
    /\ ShutdownOrder
    /\ storage = "closed" =>
        \A h \in Connections : handler[h] = "running" => graceExpired
    /\ "handler" \in closedAccess => graceExpired

\* The server has shut down from serving, with the cleaner stopped and the
\* storage closed, and a handler that outlived the grace period has accessed
\* the closed storage.
C9_Witness ==
    /\ storage = "closed"
    /\ stopReturned
    /\ graceExpired
    /\ "handler" \in closedAccess

\* ------------------------------------------------------------------ C11
\* The request's Accept header is application/json or a vnd.padlock media type.
AsksForJson ==
    \/ failure.accept = <<"application/json">>
    \/ (Len(failure.accept) > 0 /\ failure.accept[1] = "application/vnd.padlock")

AsksForHtml == \E i \in DOMAIN failure.accept : failure.accept[i] = "text/html"

ExpectedKind == IF failure.e = "other" THEN "ServerError" ELSE failure.e

\* C11, as claimed: the response written for an error is JSON when the Accept
\* header is application/json or a vnd.padlock media type and otherwise a
\* rendered HTML error page, and its status is the error kind's status.
C11_JsonElseHtml ==
    written # NoResponse =>
        /\ written.status = Status(ExpectedKind)
        /\ written.body = IF AsksForJson THEN "json" ELSE "html"

\* C11, amended: the response is JSON when the Accept header is
\* application/json or begins with application/vnd.padlock; otherwise it is the
\* rendered HTML error page when the Accept header contains text/html and the
\* page renders; otherwise it is the error's plain message. The status is the
\* error kind's status, an error of no recognised kind counting as ServerError.
C11_JsonHtmlOrMessage ==
    written # NoResponse =>
        /\ written.kind = ExpectedKind
        /\ written.status = Status(ExpectedKind)
        /\ failure.e = "other" => written.status = 500
        /\ written.body = "json" <=> AsksForJson
        /\ written.body = "html" <=> (~AsksForJson /\ AsksForHtml /\ failure.renders)
        /\ written.body = "message" <=>
                (~AsksForJson /\ (~AsksForHtml \/ ~failure.renders))
        /\ written.body = "json" => written.contentType = "application/json"
        /\ written.body = "html" => written.contentType = "text/html"

\* An error of a request that asks neither for JSON nor for HTML has been
\* answered with its plain message.
C11_Witness ==
    /\ written # NoResponse
    /\ failure.accept = <<"*/*">>
    /\ failure.e = "NotFound"
    /\ written.body = "message" /\ written.status = 404

\* ------------------------------------------------------------------ C12
\* The Accept header is application/vnd.padlock;version=<n>, n a number.
AcceptHasVersion ==
    /\ Len(request.accept) >= 2
    /\ request.accept[1] = VndPadlock
    /\ \A i \in 2..Len(request.accept) : request.accept[i] \in Digits

\* The number n of such a header.
AcceptVersion == Atoi(SubSeq(request.accept, 2, Len(request.accept)))

Dispatched(d) == mail[d] \in {"pending", "sent", "failed"}

\* C13, as claimed: the notification is dispatched only when the limiter does
\* not report the key as limited, the request does not wait for it, and no
\* failure to produce or to send it is returned to the caller or changes the
\* outcome of the request: failures are only logged.
C13_NoFailureReturned ==
    \A d \in Requests :
        /\ Dispatched(d) => ~dep[d].limited
        /\ dep[d].result # "err"
        /\ mail[d] = "failed" => d \in logged
        /\ dep[d].outcome \in {"", "served"}

\* C13, amended: the notification is dispatched only when a recipient is
\* found, the limiter does not report the key as limited and the email
\* renders; a failure to send it is logged by the goroutine and never
\* returned; a failure to render it is returned by SendDeprecatedVersionEmail
\* to the version check, and is the only error it returns; the request is
\* served whatever was returned.
C13_OnlyRenderFailureReturned ==
    \A d \in Requests :
        /\ Dispatched(d) =>
                dep[d].email # "" /\ ~dep[d].limited /\ dep[d].renders
        /\ dep[d].result = "err" <=>
                (dep[d].pc \in {"returned", "idle"} /\ dep[d].email # ""
                    /\ ~dep[d].limited /\ ~dep[d].renders)
        /\ dep[d].result = "err" => (mail[d] = "none" /\ d \notin logged)
        /\ mail[d] = "failed" <=> d \in logged
        /\ d \in logged => dep[d].result = "nil"
        /\ dep[d].outcome \in {"", "served"}
        /\ (dep[d].pc = "idle" /\ dep[d].result # "") => dep[d].outcome = "served"

\* One request has been served while its email is still to be sent, and
\* another, of the same key, was limited and served without an email.
C13_Witness ==
    /\ dep["r1"].outcome = "served" /\ mail["r1"] = "pending"
    /\ dep["r2"].outcome = "served" /\ dep["r2"].limited /\ mail["r2"] = "none"
    /\ dep["r1"].email = dep["r2"].email

\* ------------------------------------------------------------------ C14
\* The step is an Authenticate returning an error.
AuthenticateFails == last'.op = "auth" /\ last'.kind # "ok"

\* The step is the Storage.Put of worker w's Authenticate.
AuthenticatePersists(w) == worker[w].pc = "authPut" /\ worker'[w].pc = "idle"

LastUsedOf(acc, id) == acc.tokens[findAuthToken(acc, id)].lastUsed

\* The step leaves every Account but that of w's call as it is, and in that
\* one the token identifiers and the last use of every token but the matched.
OnlyLastUsedOfMatched(w) ==
    LET e == worker[w].info.email
        id == worker[w].info.id
    IN  /\ \A o \in Emails \ {e} : accounts'[o] = accounts[o]
        /\ accounts'[e].exists = accounts[e].exists
        /\ TokenIdsOf(accounts'[e]) = TokenIdsOf(accounts[e])
        /\ \A t \in TokenIdsOf(accounts[e]) \ {id} :
                LastUsedOf(accounts'[e], t) = LastUsedOf(accounts[e], t)

\* C14, as claimed: an Authenticate that fails leaves every stored Account
\* unchanged; one that succeeds changes only the last-used timestamp of the
\* matched token in the owning Account, adds and removes no token identifier
\* and touches no other Account.
C14_FrameOfAuthenticate ==
    [][/\ AuthenticateFails => accounts' = accounts
       /\ \A w \in Workers : AuthenticatePersists(w) => OnlyLastUsedOfMatched(w)]_vars

\* C14, amended: an Authenticate that fails leaves every stored Account
\* unchanged; one that succeeds replaces the owning Account by the copy it
\* loaded, the matched token's last use set to the time of the call, and
\* touches no other Account; when no other request has persisted that Account
\* since the call loaded it, this changes only the last-used timestamp of the
\* matched token and adds and removes no token identifier.
C14_FrameOfLoadedCopy ==
    [][/\ AuthenticateFails => accounts' = accounts
       /\ \A w \in Workers : AuthenticatePersists(w) =>
            /\ accounts' = [accounts EXCEPT ![worker[w].info.email] = worker[w].acc]
            /\ ~worker[w].stale => OnlyLastUsedOfMatched(w)
            /\ worker[w].info.id \in TokenIdsOf(worker[w].acc)
            /\ LastUsedOf(worker[w].acc, worker[w].info.id) >= worker[w].info.was]_vars

\* An Authenticate has succeeded and moved the last use of its token forward,
\* in an Account that holds another token, last used earlier.
C14_Witness ==
    /\ last.op = "auth" /\ last.kind = "ok"
    /\ last.id \in TokenIdsOf(accounts[last.email])
    /\ last.was < LastUsedOf(accounts[last.email], last.id)
    /\ \E t \in TokenIdsOf(accounts[last.email]) \ {last.id} :
            LastUsedOf(accounts[last.email], t) < LastUsedOf(accounts[last.email], last.id)

\* ------------------------------------------------------------------ C15
\* C15: whenever Server.Init returns without error, the secret configured or
\* left unset, server.secret holds the decoded configured secret or the 32
\* generated bytes, the endpoints are registered, the storage is open, the
\* email rate limiter exists and the AuthRequest cleaner is created and started.
C15_InitReturnsInitialised ==
    (booted.pc = "returned" /\ booted.result = "nil" /\ config.secret # "invalid") =>
        /\ booted.secret = IF config.secret = "" THEN "random" ELSE "decoded"
        /\ booted.endpoints
        /\ booted.storageOpen
        /\ booted.limiter
        /\ booted.cleanerStarted

====
